---- MODULE Spec2Model ----
(***************************************************************************)
(* Model of grifter's image cache-and-prefetch pipeline                    *)
(* (server/src/api.rs): the dispatcher image_prefetch_pool, the workers    *)
(* image_prefetch_worker, the on-disk cache ./cache/<id>/{original,        *)
(* thumbnail}.jpeg and the image endpoint get_image; and of its            *)
(* compressed-asset serving layer: the envelopes built by start and the    *)
(* handlers get_index, get_asset and get_catalog; and of two functions of   *)
(* the catalog load: igdb::get_games (the batching of the slug list, in     *)
(* server/src/igdb.rs and in src/igdb.rs) and config::drain_duplicates.     *)
(***************************************************************************)
EXTENDS Integers, Sequences, FiniteSets, TLC

(* ------------------------------ bounds --------------------------------- *)

\* Largest thread_count image_prefetch_pool is started with (at least 1).
MaxThreads == 2

\* Longest job stream the producer sends before it closes the channel.
MaxJobs == 3

\* The same two bounds in the specification that also serves image requests.
MaxServeThreads == 1
MaxServeJobs == 2

\* The image identifiers that occur in job streams and requests.
ImageIds == {"abc123", "co1xyz"}

\* Longest uncompressed payload of a bundled asset or of the catalog.
MaxPayloadLen == 1

\* Image sides 1..MaxSide are tried next to the sizes around the thumbnail
\* height and those of usual covers.
MaxSide == 3

\* get_games is called with slug lists of up to MaxBatches full requests and
\* one slug more.
MaxBatches == 2

\* Longest list of games drain_duplicates is called with.
MaxGames == 4

(* --------------------------- program constants ------------------------- *)

\* const IGDB_QUERY_LIMIT: usize = 500
IGDB_QUERY_LIMIT == 500

\* bounded(1): the capacity of every worker's inbox.
InboxCapacity == 1

OriginalJpeg == "original.jpeg"
ThumbnailJpeg == "thumbnail.jpeg"
FileNames == {OriginalJpeg, ThumbnailJpeg}

\* What a reader finds at a path: nothing, a file whose writer has created
\* (truncated) it and not yet written all of it, or the whole JPEG.
FileStates == {"absent", "partial", "complete"}

\* The value of the request's "size" query parameter; NoParam is a request
\* without the parameter, the others are what a client may send.
NoParam == "<none>"
SizeParams == {NoParam, "Thumbnail", "Original", "thumbnail"}

\* No JobThread chosen: an index no thread has.
NoThread == MaxThreads + MaxServeThreads + 1
NoImage == "<no image>"

VARIABLES
    thread_count,  \* the thread_count image_prefetch_pool was started with
    jobs,          \* the job stream handed to image_prefetch_pool (Receiver<String>)
    taken,         \* how many identifiers the dispatch loop has taken from it
    dpc,           \* where the dispatcher is in image_prefetch_pool
    target,        \* the JobThread the dispatcher is about to send to
    is_busy,       \* JobThread.is_busy of every thread
    inbox,         \* the bounded(1) channel (s, r) of every thread
    job_finished,  \* the bounded(thread_count) completion channel
    handed,        \* how often the dispatcher has sent each identifier so far
    delivered,     \* how often the workers have received each identifier so far
    wpc,           \* where every worker is in image_prefetch_worker
    image_id,      \* the identifier every worker is processing
    cache_root,    \* whether ./cache exists
    image_dirs,    \* the identifiers whose directory ./cache/<id> exists
    files,         \* the state of ./cache/<id>/<file name>
    fetched,       \* calls of igdb::get_image made so far, per identifier
    writes,        \* creations (File::create) of every cache file so far
    writer,        \* the thread whose save last created the file and still writes it
    response,      \* the last response of get_image, with its request
    client_web,    \* client_web::CLIENT_WEB: the uncompressed bytes of every bundled url
    catalog_json,  \* serde_json::to_vec(&catalog): the uncompressed catalog document
    assets_gz,     \* Model.assets_gz: the envelope of every bundled url
    catalog_gz,    \* Model.catalog_gz: the envelope of the catalog
    asset_response, \* the last response of get_index, get_asset or get_catalog
    dimensions,    \* original.dimensions(): (width, height) of a source image
    max,           \* the optional bounds max_dimensions is called with
    clamped,       \* what max_dimensions returned for them
    thumbnail_size, \* the dimensions of the thumbnail a worker makes of the source
    crate,         \* which get_games runs: the one of server/src or the one of src
    slugs,         \* the slug list get_games is called with
    requests,      \* get_games: the requests completed so far
    igdb_games,    \* get_games: the games collected so far
    queries,       \* the slugs named by every catalog request sent so far
    responses,     \* what the catalog answered to each of them
    first_error,   \* src/igdb.rs: the first Err among the results so far
    gpc,           \* where get_games is
    get_games_result, \* what get_games returned
    config_games,  \* config.games
    input_games,   \* config.games as drain_duplicates was called with it
    conflicting_games, \* what drain_duplicates returned
    drained        \* whether drain_duplicates has run

vars == <<thread_count, jobs, taken, dpc, target, is_busy, inbox, job_finished, handed,
          delivered, wpc, image_id,
          cache_root, image_dirs, files, writer, fetched, writes, response,
          client_web, catalog_json, assets_gz, catalog_gz, asset_response,
          dimensions, max, clamped, thumbnail_size,
          crate, slugs, requests, igdb_games, queries, responses, first_error, gpc,
          get_games_result,
          config_games, input_games, conflicting_games, drained>>

pool_vars == <<thread_count, jobs, taken, dpc, target, is_busy, inbox, job_finished, handed,
               delivered>>
worker_vars == <<wpc, image_id>>
disk_vars == <<cache_root, image_dirs, files, writer>>
count_vars == <<fetched, writes>>
asset_vars == <<client_web, catalog_json, assets_gz, catalog_gz, asset_response>>

\* What no step of the pool, of a worker or of get_image is modelled to touch.
resize_vars == <<dimensions, max, clamped, thumbnail_size>>
igdb_vars == <<crate, slugs, requests, igdb_games, queries, responses, first_error, gpc,
               get_games_result>>
config_vars == <<config_games, input_games, conflicting_games, drained>>
rest_vars == <<asset_vars, resize_vars, igdb_vars, config_vars>>

(* ------------------------------ helpers -------------------------------- *)

\* Fault variant of Threads: an inclusive range, one worker too many.
Threads_Inclusive == 0..thread_count

\* for thread in 0..thread_count: the indices of the spawned workers.
Threads == 0..(thread_count - 1)

\* All job streams of at most n identifiers.
JobStreams(longest) == UNION {[1..n -> ImageIds] : n \in 0..longest}

Paths == ImageIds \X FileNames

\* The worker is between receiving an identifier and signalling completion:
\* the fetch / decode / resize / save step.
DerivingPcs == {"image_cache", "open_original", "fetch", "save_original",
                "write_original", "open_thumbnail", "save_thumbnail",
                "write_thumbnail"}

\* A terminated worker thread: its receiver r and its on_complete are dropped.
DeadPcs == {"panicked", "send_panicked", "exited"}

\* The dispatcher has left image_prefetch_pool: threads (the senders) and
\* job_finished (the receiver) are dropped.
DispatcherGone == dpc \in {"returned", "panicked"}

NoResponse == [id |-> NoImage, size |-> NoParam, status |-> 0, body |-> "absent",
               content_type |-> "", cache_control |-> "", ops |-> {}]

(* ------------------------------- Init ---------------------------------- *)

\* image_prefetch_pool has spawned its workers (no thread is busy, every
\* channel is empty) and is about to enter its loop; the cache is cold.
InitPool(max_threads, max_jobs) ==
    /\ thread_count \in 1..max_threads
    /\ jobs \in JobStreams(max_jobs)
    /\ taken = 0
    /\ dpc = "loop"
    /\ target = NoThread
    /\ is_busy = [t \in Threads |-> FALSE]
    /\ inbox = [t \in Threads |-> << >>]
    /\ job_finished = << >>
    /\ handed = [i \in ImageIds |-> 0]
    /\ delivered = [i \in ImageIds |-> 0]
    /\ wpc = [t \in Threads |-> "idle"]
    /\ image_id = [t \in Threads |-> NoImage]
    /\ cache_root = FALSE
    /\ image_dirs = {}
    /\ files = [p \in Paths |-> "absent"]
    /\ writer = [p \in Paths |-> NoThread]
    /\ fetched = [i \in ImageIds |-> 0]
    /\ writes = [p \in Paths |-> 0]
    /\ response = NoResponse

(* ---------------------------- the dispatcher --------------------------- *)

\* The job the dispatcher holds (the loop variable `job`).
job == jobs[taken]

FreeThreads == {t \in Threads : ~is_busy[t]}

\* threads.iter_mut().find(|thread| !thread.is_busy): the first free thread.
FirstFree == CHOOSE t \in FreeThreads : \A u \in FreeThreads : t <= u

\* Fault variant of DispatcherTake: the chosen thread is not marked busy.
DispatcherTake_NoMark ==
    /\ dpc = "loop"
    /\ taken < Len(jobs)
    /\ taken' = taken + 1
    /\ IF FreeThreads # {}
         THEN /\ target' = FirstFree
              /\ dpc' = "send"
         ELSE /\ dpc' = "wait"
              /\ UNCHANGED target
    /\ UNCHANGED <<handed, delivered, thread_count, jobs, is_busy, inbox, job_finished,
                   worker_vars, disk_vars, count_vars, response, rest_vars>>

\* Fault variant of DispatcherTake: with no free thread it sends to thread 0
\* at once instead of waiting for a completion.
DispatcherTake_NoWait ==
    /\ dpc = "loop"
    /\ taken < Len(jobs)
    /\ taken' = taken + 1
    /\ IF FreeThreads # {}
         THEN /\ target' = FirstFree
              /\ is_busy' = [is_busy EXCEPT ![FirstFree] = TRUE]
         ELSE /\ target' = 0
              /\ UNCHANGED is_busy
    /\ dpc' = "send"
    /\ UNCHANGED <<handed, delivered, thread_count, jobs, inbox, job_finished, worker_vars, disk_vars, count_vars,
                   response, rest_vars>>

\* for job in jobs.into_iter() { let free_thread = ...find(..); match ... }:
\* the next identifier is taken; a free thread is marked busy and chosen, or
\* the dispatcher goes to wait for a completion.
DispatcherTake ==
    /\ dpc = "loop"
    /\ taken < Len(jobs)
    /\ taken' = taken + 1
    /\ IF FreeThreads # {}
         THEN /\ target' = FirstFree
              /\ is_busy' = [is_busy EXCEPT ![FirstFree] = TRUE]
              /\ dpc' = "send"
         ELSE /\ dpc' = "wait"
              /\ UNCHANGED <<target, is_busy>>
    /\ UNCHANGED <<handed, delivered, thread_count, jobs, inbox, job_finished, worker_vars, disk_vars, count_vars,
                   response, rest_vars>>

\* Fault variant of DispatcherWait: the thread whose completion is received is
\* marked free again.
DispatcherWait_MarkFree ==
    /\ dpc = "wait"
    /\ job_finished # << >>
    /\ target' = Head(job_finished)
    /\ is_busy' = [is_busy EXCEPT ![Head(job_finished)] = FALSE]
    /\ job_finished' = Tail(job_finished)
    /\ dpc' = "send"
    /\ UNCHANGED <<handed, delivered, thread_count, jobs, taken, inbox, worker_vars, disk_vars, count_vars,
                   response, rest_vars>>

\* let thread_index = job_finished.recv().unwrap(): blocks while the channel
\* is empty (the dispatcher's own on_complete keeps it connected).
DispatcherWait ==
    /\ dpc = "wait"
    /\ job_finished # << >>
    /\ target' = Head(job_finished)
    /\ job_finished' = Tail(job_finished)
    /\ dpc' = "send"
    /\ UNCHANGED <<handed, delivered, thread_count, jobs, taken, is_busy, inbox, worker_vars, disk_vars, count_vars,
                   response, rest_vars>>

\* Fault variant of DispatcherSend: the job is put into every inbox that
\* has room.
DispatcherSend_Broadcast ==
    /\ dpc = "send"
    /\ Len(inbox[target]) < InboxCapacity
    /\ inbox' = [t \in Threads |->
                   IF Len(inbox[t]) < InboxCapacity THEN Append(inbox[t], job)
                                                    ELSE inbox[t]]
    /\ handed' = [handed EXCEPT ![job] = @ + 1]
    /\ dpc' = "loop"
    /\ target' = NoThread
    /\ UNCHANGED <<delivered, thread_count, jobs, taken, is_busy, job_finished, worker_vars,
                   disk_vars, count_vars, response, rest_vars>>

\* thread.sender.send(job).unwrap(): blocks while the inbox is full, panics
\* when the worker's receiver is gone.
DispatcherSend ==
    /\ dpc = "send"
    /\ IF wpc[target] \in DeadPcs
         THEN /\ dpc' = "panicked"
              /\ UNCHANGED <<inbox, handed>>
         ELSE /\ Len(inbox[target]) < InboxCapacity
              /\ inbox' = [inbox EXCEPT ![target] = Append(@, job)]
              /\ handed' = [handed EXCEPT ![job] = @ + 1]
              /\ dpc' = "loop"
    /\ target' = NoThread
    /\ UNCHANGED <<delivered, thread_count, jobs, taken, is_busy, job_finished, worker_vars, disk_vars,
                   count_vars, response, rest_vars>>

\* The stream is closed and drained: the for loop ends and the function
\* returns, dropping threads, on_complete and job_finished.
DispatcherReturn ==
    /\ dpc = "loop"
    /\ taken = Len(jobs)
    /\ dpc' = "returned"
    /\ UNCHANGED <<handed, delivered, thread_count, jobs, taken, target, is_busy, inbox, job_finished, worker_vars,
                   disk_vars, count_vars, response, rest_vars>>

(* ------------------------------ the workers ---------------------------- *)

\* image::open(path): Ok only for a file that decodes, that is a whole JPEG.
ImageOpenOk(p) == files[p] = "complete"

\* Fault variant of WorkerReceive: a worker stops taking identifiers once the
\* dispatcher has dropped the sender, leaving what is queued.
WorkerReceive_StopWhenClosed(t) ==
    /\ t \in Threads
    /\ wpc[t] = "idle"
    /\ inbox[t] # << >>
    /\ ~DispatcherGone
    /\ image_id' = [image_id EXCEPT ![t] = Head(inbox[t])]
    /\ delivered' = [delivered EXCEPT ![Head(inbox[t])] = @ + 1]
    /\ inbox' = [inbox EXCEPT ![t] = Tail(@)]
    /\ wpc' = [wpc EXCEPT ![t] = "image_cache"]
    /\ UNCHANGED <<handed, thread_count, jobs, taken, dpc, target, is_busy, job_finished, disk_vars,
                   count_vars, response, rest_vars>>

\* for image_id in receiver.into_iter(): the next identifier of the inbox.
WorkerReceive(t) ==
    /\ t \in Threads
    /\ wpc[t] = "idle"
    /\ inbox[t] # << >>
    /\ image_id' = [image_id EXCEPT ![t] = Head(inbox[t])]
    /\ delivered' = [delivered EXCEPT ![Head(inbox[t])] = @ + 1]
    /\ inbox' = [inbox EXCEPT ![t] = Tail(@)]
    /\ wpc' = [wpc EXCEPT ![t] = "image_cache"]
    /\ UNCHANGED <<handed, thread_count, jobs, taken, dpc, target, is_busy, job_finished, disk_vars,
                   count_vars, response, rest_vars>>

\* receiver.into_iter() ends once the sender is dropped and the inbox empty.
WorkerExit(t) ==
    /\ t \in Threads
    /\ wpc[t] = "idle"
    /\ inbox[t] = << >>
    /\ DispatcherGone
    /\ wpc' = [wpc EXCEPT ![t] = "exited"]
    /\ UNCHANGED <<pool_vars, image_id, disk_vars, count_vars, response, rest_vars>>

\* Fault variant of WorkerImageCache: the directories of all identifiers of
\* the stream are made at once.
WorkerImageCache_StreamDirs(t) ==
    /\ t \in Threads
    /\ wpc[t] = "image_cache"
    /\ cache_root' = TRUE
    /\ image_dirs' = image_dirs \cup {jobs[i] : i \in 1..Len(jobs)}
    /\ wpc' = [wpc EXCEPT ![t] = "open_original"]
    /\ UNCHANGED <<pool_vars, image_id, files, writer, count_vars, response, rest_vars>>

\* let cache = image_cache(&image_id): both create_dir calls succeed or find
\* the directory already there.
WorkerImageCache(t) ==
    /\ t \in Threads
    /\ wpc[t] = "image_cache"
    /\ cache_root' = TRUE
    /\ image_dirs' = image_dirs \cup {image_id[t]}
    /\ wpc' = [wpc EXCEPT ![t] = "open_original"]
    /\ UNCHANGED <<pool_vars, image_id, files, writer, count_vars, response, rest_vars>>

\* Fault variant of WorkerOpenOriginal: the worker goes on to the thumbnail
\* whether or not there is an original.
WorkerOpenOriginal_SkipOriginal(t) ==
    /\ t \in Threads
    /\ wpc[t] = "open_original"
    /\ wpc' = [wpc EXCEPT ![t] = "open_thumbnail"]
    /\ UNCHANGED <<pool_vars, image_id, disk_vars, count_vars, response, rest_vars>>

\* Fault variant of WorkerOpenOriginal: the cached original is never found.
WorkerOpenOriginal_AlwaysMiss(t) ==
    /\ t \in Threads
    /\ wpc[t] = "open_original"
    /\ wpc' = [wpc EXCEPT ![t] = "fetch"]
    /\ UNCHANGED <<pool_vars, image_id, disk_vars, count_vars, response, rest_vars>>

\* match image::open(&original_path) { Ok(original) => .., Err(_) => .. }
WorkerOpenOriginal(t) ==
    /\ t \in Threads
    /\ wpc[t] = "open_original"
    /\ wpc' = [wpc EXCEPT ![t] =
                 IF ImageOpenOk(<<image_id[t], OriginalJpeg>>)
                   THEN "open_thumbnail" ELSE "fetch"]
    /\ UNCHANGED <<pool_vars, image_id, disk_vars, count_vars, response, rest_vars>>

\* igdb::get_image(&image_id).unwrap() and load_from_memory_with_format(..)
\* .unwrap(), both succeeding: one remote fetch, decoded.
WorkerFetch(t) ==
    /\ t \in Threads
    /\ wpc[t] = "fetch"
    /\ fetched' = [fetched EXCEPT ![image_id[t]] = @ + 1]
    /\ wpc' = [wpc EXCEPT ![t] = "save_original"]
    /\ UNCHANGED <<pool_vars, image_id, disk_vars, writes, response, rest_vars>>

\* Fault variant of WorkerFetchFail: a placeholder is stored as the original
\* before the thread gives up.
WorkerFetchFail_Placeholder(t) ==
    /\ t \in Threads
    /\ wpc[t] = "fetch"
    /\ fetched' = [fetched EXCEPT ![image_id[t]] = @ + 1]
    /\ files' = [files EXCEPT ![<<image_id[t], OriginalJpeg>>] = "complete"]
    /\ wpc' = [wpc EXCEPT ![t] = "panicked"]
    /\ UNCHANGED <<pool_vars, image_id, cache_root, image_dirs, writer, writes, response,
                   rest_vars>>

\* The same two calls when the fetch fails (BadResponse, UnsupportedFormat,
\* MissingFormat, BadRead) or the bytes do not decode: unwrap panics.
WorkerFetchFail(t) ==
    /\ t \in Threads
    /\ wpc[t] = "fetch"
    /\ fetched' = [fetched EXCEPT ![image_id[t]] = @ + 1]
    /\ wpc' = [wpc EXCEPT ![t] = "panicked"]
    /\ UNCHANGED <<pool_vars, image_id, disk_vars, writes, response, rest_vars>>

\* Fault variant of CreateFile: a file that is there is opened for appending,
\* so what is written ends up behind what was there and the file is never a
\* whole JPEG again.
CreateFile_Append(t, p, next) ==
    /\ files' = [files EXCEPT ![p] = "partial"]
    /\ writer' = [writer EXCEPT ![p] = IF files[p] = "absent" THEN t ELSE NoThread]
    /\ writes' = [writes EXCEPT ![p] = @ + 1]
    /\ wpc' = [wpc EXCEPT ![t] = next]
    /\ UNCHANGED <<pool_vars, image_id, cache_root, image_dirs, fetched, response, rest_vars>>

\* save_with_format(path, Jpeg), first half: File::create makes the file, or
\* truncates the one that is there.
CreateFile(t, p, next) ==
    /\ files' = [files EXCEPT ![p] = "partial"]
    /\ writer' = [writer EXCEPT ![p] = t]
    /\ writes' = [writes EXCEPT ![p] = @ + 1]
    /\ wpc' = [wpc EXCEPT ![t] = next]
    /\ UNCHANGED <<pool_vars, image_id, cache_root, image_dirs, fetched, response, rest_vars>>

\* save_with_format, second half: the encoder has written every byte. The file
\* is whole once the thread that truncated it last has written all of it
\* (an earlier writer still writing puts the same bytes at the same offsets).
FinishFile(t, p, next) ==
    /\ IF writer[p] = t
         THEN /\ files' = [files EXCEPT ![p] = "complete"]
              /\ writer' = [writer EXCEPT ![p] = NoThread]
         ELSE UNCHANGED <<files, writer>>
    /\ wpc' = [wpc EXCEPT ![t] = next]
    /\ UNCHANGED <<pool_vars, image_id, cache_root, image_dirs, count_vars, response, rest_vars>>

WorkerSaveOriginal(t) ==
    /\ t \in Threads
    /\ wpc[t] = "save_original"
    /\ CreateFile(t, <<image_id[t], OriginalJpeg>>, "write_original")

WorkerWriteOriginal(t) ==
    /\ t \in Threads
    /\ wpc[t] = "write_original"
    /\ FinishFile(t, <<image_id[t], OriginalJpeg>>, "open_thumbnail")

\* match image::open(&thumbnail_path) { Ok(thumbnail) => .., Err(_) => .. }
WorkerOpenThumbnail(t) ==
    /\ t \in Threads
    /\ wpc[t] = "open_thumbnail"
    /\ wpc' = [wpc EXCEPT ![t] =
                 IF ImageOpenOk(<<image_id[t], ThumbnailJpeg>>)
                   THEN "signal" ELSE "save_thumbnail"]
    /\ UNCHANGED <<pool_vars, image_id, disk_vars, count_vars, response, rest_vars>>

\* Fault variant of WorkerSaveThumbnail: the thumbnail is made from a second
\* remote fetch.
WorkerSaveThumbnail_Refetch(t) ==
    /\ t \in Threads
    /\ wpc[t] = "save_thumbnail"
    /\ files' = [files EXCEPT ![<<image_id[t], ThumbnailJpeg>>] = "partial"]
    /\ writer' = [writer EXCEPT ![<<image_id[t], ThumbnailJpeg>>] = t]
    /\ writes' = [writes EXCEPT ![<<image_id[t], ThumbnailJpeg>>] = @ + 1]
    /\ fetched' = [fetched EXCEPT ![image_id[t]] = @ + 1]
    /\ wpc' = [wpc EXCEPT ![t] = "write_thumbnail"]
    /\ UNCHANGED <<pool_vars, image_id, cache_root, image_dirs, response, rest_vars>>

\* Fault variant of WorkerSaveThumbnail: the thumbnail is saved to
\* original_path.
WorkerSaveThumbnail_OriginalPath(t) ==
    /\ t \in Threads
    /\ wpc[t] = "save_thumbnail"
    /\ CreateFile(t, <<image_id[t], OriginalJpeg>>, "write_thumbnail")

\* original.thumbnail(tw, th) of the image in memory (no fetch), then
\* thumbnail.save_with_format(&thumbnail_path, Jpeg), first half.
WorkerSaveThumbnail(t) ==
    /\ t \in Threads
    /\ wpc[t] = "save_thumbnail"
    /\ CreateFile(t, <<image_id[t], ThumbnailJpeg>>, "write_thumbnail")

WorkerWriteThumbnail(t) ==
    /\ t \in Threads
    /\ wpc[t] = "write_thumbnail"
    /\ FinishFile(t, <<image_id[t], ThumbnailJpeg>>, "signal")

\* Fault variant of WorkerSignal: the worker does not send its index.
WorkerSignal_Forget(t) ==
    /\ t \in Threads
    /\ wpc[t] = "signal"
    /\ wpc' = [wpc EXCEPT ![t] = "idle"]
    /\ image_id' = [image_id EXCEPT ![t] = NoImage]
    /\ UNCHANGED <<pool_vars, disk_vars, count_vars, response, rest_vars>>

\* on_complete.send(thread).unwrap(): blocks while job_finished is full,
\* panics when the receiver job_finished is dropped.
WorkerSignal(t) ==
    /\ t \in Threads
    /\ wpc[t] = "signal"
    /\ IF DispatcherGone
         THEN /\ wpc' = [wpc EXCEPT ![t] = "send_panicked"]
              /\ UNCHANGED <<job_finished, image_id>>
         ELSE /\ Len(job_finished) < thread_count
              /\ job_finished' = Append(job_finished, t)
              /\ wpc' = [wpc EXCEPT ![t] = "idle"]
              /\ image_id' = [image_id EXCEPT ![t] = NoImage]
    /\ UNCHANGED <<handed, delivered, thread_count, jobs, taken, dpc, target, is_busy, inbox, disk_vars, count_vars,
                   response, rest_vars>>

\* Fault variant of WorkerImageCacheFail: a directory that already exists is
\* an error like any other.
WorkerImageCacheFail_ExistsIsError(t) ==
    /\ t \in Threads
    /\ wpc[t] = "image_cache"
    /\ \E made_root \in BOOLEAN : cache_root' = (cache_root \/ made_root)
    /\ wpc' = [wpc EXCEPT ![t] = "panicked"]
    /\ UNCHANGED <<pool_vars, image_id, image_dirs, files, writer, count_vars,
                   response, rest_vars>>

\* image_cache when a create_dir fails with something else than AlreadyExists:
\* panic!("failed to create cache directory"). The failing call is the one
\* for ./cache, or the one for ./cache/<id> after ./cache was made; a
\* create_dir of a directory that is there answers AlreadyExists.
WorkerImageCacheFail(t) ==
    /\ t \in Threads
    /\ wpc[t] = "image_cache"
    /\ ~cache_root \/ image_id[t] \notin image_dirs
    /\ \E made_root \in BOOLEAN : cache_root' = (cache_root \/ made_root)
    /\ wpc' = [wpc EXCEPT ![t] = "panicked"]
    /\ UNCHANGED <<pool_vars, image_id, image_dirs, files, writer, count_vars,
                   response, rest_vars>>

\* Where save_with_format(..).unwrap() can end the thread: File::create fails
\* and changes nothing; a write fails and leaves the file as far as it was
\* written.
FalliblePcs == {"save_original", "write_original", "save_thumbnail",
                "write_thumbnail"}

WorkerPanic(t) ==
    /\ t \in Threads
    /\ wpc[t] \in FalliblePcs
    /\ wpc' = [wpc EXCEPT ![t] = "panicked"]
    /\ writer' = [p \in Paths |-> IF writer[p] = t THEN NoThread ELSE writer[p]]
    /\ UNCHANGED <<pool_vars, image_id, cache_root, image_dirs, files, count_vars,
                   response, rest_vars>>

(* --------------------------- the image endpoint ------------------------ *)

\* Fault variant of ParseSize: anything but "Thumbnail" means Original.
ParseSize_DefaultOriginal(param) ==
    IF param = "Thumbnail" THEN "Thumbnail" ELSE "Original"

\* match request.get_param("size").as_deref(): the ImageSize, or "reject"
\* for the arm that returns 404.
ParseSize(param) ==
    IF param = "Thumbnail" THEN "Thumbnail"
    ELSE IF param = "Original" THEN "Original"
    ELSE "reject"

\* Fault variant of SizeFile: the two file names swapped.
SizeFile_Swapped(size) ==
    IF size = "Thumbnail" THEN OriginalJpeg ELSE ThumbnailJpeg

\* match size { Thumbnail => ..join("thumbnail.jpeg"), Original => ..join("original.jpeg") }
SizeFile(size) ==
    IF size = "Thumbnail" THEN ThumbnailJpeg ELSE OriginalJpeg

Response404(id, param, ops) ==
    [id |-> id, size |-> param, status |-> 404, body |-> "absent",
     content_type |-> "", cache_control |-> "", ops |-> ops]

\* Fault variant of Response200: the cache-control without "immutable".
Response200_MaxAgeOnly(id, param, ops, body) ==
    [id |-> id, size |-> param, status |-> 200, body |-> body,
     content_type |-> "image/jpeg",
     cache_control |-> "max-age=10368000", ops |-> ops]

\* Response::from_file("image/jpeg", image).with_unique_header("cache-control", ..):
\* the body is the file as the handler found it.
Response200(id, param, ops, body) ==
    [id |-> id, size |-> param, status |-> 200, body |-> body,
     content_type |-> "image/jpeg",
     cache_control |-> "max-age=10368000, immutable", ops |-> ops]

\* get_image(request, image_id), one request from start to response. ops
\* lists what the handler did to the cache tree.
GetImage(id, param) ==
    LET size == ParseSize(param)
        p == <<id, SizeFile(size)>>
    IN  /\ IF size = "reject"
              THEN /\ response' = Response404(id, param, {})
                   /\ UNCHANGED <<cache_root, image_dirs>>
              ELSE /\ cache_root' = TRUE
                   /\ image_dirs' = image_dirs \cup {id}
                   /\ response' =
                        IF files[p] = "absent"
                          THEN Response404(id, param, {"create_dir", "open"})
                          ELSE Response200(id, param, {"create_dir", "open"}, files[p])
        /\ UNCHANGED <<pool_vars, worker_vars, files, writer, count_vars, rest_vars>>

\* The handler panics in image_cache; the server answers the request with 500.
Response500(id, param) ==
    [id |-> id, size |-> param, status |-> 500, body |-> "absent",
     content_type |-> "", cache_control |-> "", ops |-> {"create_dir"}]

\* get_image for a valid size when a create_dir of image_cache fails.
GetImageCacheFail(id, param) ==
    /\ ParseSize(param) # "reject"
    /\ ~cache_root \/ id \notin image_dirs
    /\ \E made_root \in BOOLEAN : cache_root' = (cache_root \/ made_root)
    /\ response' = Response500(id, param)
    /\ UNCHANGED <<pool_vars, worker_vars, image_dirs, files, writer, count_vars,
                   rest_vars>>

(* ----------------------- the asset serving layer ----------------------- *)

\* Option<T>: None and Some(x).
None == << >>
Some(x) == <<x>>

\* The urls of client_web::CLIENT_WEB, and the urls a client asks for: the
\* bundled ones, the catalog, the root, and a path no route matches.
AssetUrls == {"/index.html", "/logo.svg"}
CatalogUrl == "/api/catalog"
RequestUrls == AssetUrls \cup {CatalogUrl, "/", "/about"}

\* Byte strings of at most n bytes (over two byte values).
ByteStrings(n) == UNION {[1..k -> {0, 1}] : k \in 0..n}
Payloads == ByteStrings(MaxPayloadLen)

\* gzip(bytes): GzEncoder writes the gzip magic bytes, the deflated data
\* (here stored as it is) and a trailer with the length of the input.
gzip(bytes) == <<31, 139>> \o bytes \o <<Len(bytes)>>

\* The digest of VarBlake2b::new(10) folded over the bytes it is fed; a
\* fixed-size value whatever the length of the input.
RECURSIVE digest(_)
digest(bytes) ==
    IF bytes = << >> THEN 7
    ELSE (digest(SubSeq(bytes, 1, Len(bytes) - 1)) * 31
            + bytes[Len(bytes)] + 1) % 1048576

\* encoded_hash(bytes): the digest in url-safe base64 without padding (14
\* characters for the 10 bytes).
encoded_hash(bytes) == <<14, digest(bytes)>>

\* extension_to_mime of the url's extension, or application/octet-stream.
MimeOf(url) ==
    IF url = "/index.html" THEN "text/html; charset=utf8"
    ELSE IF url = "/logo.svg" THEN "image/svg+xml"
    ELSE "application/octet-stream"

\* GzippedAsset { mime, bytes, hash }.
GzippedAsset(mime, bytes, hash) == [mime |-> mime, bytes |-> bytes, hash |-> hash]

\* No envelope: start has not built the model yet.
NoAsset == GzippedAsset("", << >>, None)
NoAssets == [u \in {} |-> NoAsset]

NoAssetResponse ==
    [url |-> "", if_none_match |-> None, handler |-> "", status |-> 0,
     body |-> << >>, content_encoding |-> "", etag |-> None, max_age |-> 0]

\* The header values a client sends as If-None-Match: none, or a validator
\* it was given for some content.
Validators == {None} \cup {Some(encoded_hash(gzip(b))) : b \in Payloads}

\* The pool part and the image endpoint before start has built the model.
AssetsNotBuilt ==
    /\ client_web = [u \in AssetUrls |-> << >>]
    /\ catalog_json = << >>
    /\ assets_gz = NoAssets
    /\ catalog_gz = NoAsset
    /\ asset_response = NoAssetResponse

\* Fault variant of Start: the hash is taken of the uncompressed bytes.
Start_HashUncompressed ==
    /\ catalog_gz = NoAsset
    /\ assets_gz' = [u \in AssetUrls |->
                       GzippedAsset(MimeOf(u), gzip(client_web[u]),
                                    encoded_hash(client_web[u]))]
    /\ catalog_gz' = GzippedAsset("application/json", gzip(catalog_json),
                                  encoded_hash(catalog_json))
    /\ UNCHANGED <<pool_vars, worker_vars, disk_vars, count_vars, response,
                   client_web, catalog_json, asset_response, resize_vars,
                   igdb_vars, config_vars>>

\* start, let model = { .. }: every bundled url and the catalog get their
\* envelope, the hash taken of the compressed bytes.
Start ==
    /\ catalog_gz = NoAsset
    /\ assets_gz' = [u \in AssetUrls |->
                       LET compressed == gzip(client_web[u])
                       IN  GzippedAsset(MimeOf(u), compressed, encoded_hash(compressed))]
    /\ catalog_gz' = LET catalog_compressed == gzip(catalog_json)
                     IN  GzippedAsset("application/json", catalog_compressed,
                                      encoded_hash(catalog_compressed))
    /\ UNCHANGED <<pool_vars, worker_vars, disk_vars, count_vars, response,
                   client_web, catalog_json, asset_response, resize_vars,
                   igdb_vars, config_vars>>

\* Response::from_data(mime, bytes).with_unique_header("content-encoding", "gzip").
from_data_gzip(url, if_none_match, handler, bytes) ==
    [url |-> url, if_none_match |-> if_none_match, handler |-> handler,
     status |-> 200, body |-> bytes, content_encoding |-> "gzip",
     etag |-> None, max_age |-> 0]

\* Response::with_etag(request, etag): a successful response whose request
\* carries If-None-Match equal to the etag becomes 304 with an empty body;
\* the ETag header is set either way.
with_etag(r, etag) ==
    IF r.status < 200 \/ r.status >= 300 THEN r
    ELSE IF r.if_none_match = Some(etag)
      THEN [r EXCEPT !.status = 304, !.body = << >>, !.etag = Some(etag)]
      ELSE [r EXCEPT !.etag = Some(etag)]

\* Response::with_public_cache(max_age_seconds): Cache-Control "public, max-age=N".
with_public_cache(r, max_age_seconds) == [r EXCEPT !.max_age = max_age_seconds]

\* Response::empty_404().
empty_404(url, if_none_match, handler) ==
    [NoAssetResponse EXCEPT !.url = url, !.if_none_match = if_none_match,
                            !.handler = handler, !.status = 404]

\* Fault variant of get_index: the request's validator is not looked at.
get_index_NoEtag(url, if_none_match) ==
    IF "/index.html" \notin DOMAIN assets_gz
      THEN empty_404(url, if_none_match, "get_index")
      ELSE LET index == assets_gz["/index.html"]
           IN  with_public_cache(
                 [from_data_gzip(url, if_none_match, "get_index", index.bytes)
                    EXCEPT !.etag = Some(index.hash)], 60)

\* get_index(request, model).
get_index(url, if_none_match) ==
    IF "/index.html" \notin DOMAIN assets_gz
      THEN empty_404(url, if_none_match, "get_index")
      ELSE LET index == assets_gz["/index.html"]
           IN  with_public_cache(
                 with_etag(from_data_gzip(url, if_none_match, "get_index", index.bytes),
                           index.hash), 60)

\* get_asset(request, asset).
get_asset(url, if_none_match, asset) ==
    with_public_cache(
      with_etag(from_data_gzip(url, if_none_match, "get_asset", asset.bytes), asset.hash),
      60 * 60 * 24)

\* Fault variant of get_catalog: the content-encoding header is left out.
get_catalog_NoEncoding(url, if_none_match, catalog) ==
    with_public_cache(
      with_etag([from_data_gzip(url, if_none_match, "get_catalog", catalog.bytes)
                   EXCEPT !.content_encoding = ""], catalog.hash),
      60)

\* get_catalog(request, catalog).
get_catalog(url, if_none_match, catalog) ==
    with_public_cache(
      with_etag(from_data_gzip(url, if_none_match, "get_catalog", catalog.bytes),
                catalog.hash),
      60)

\* The handler closure of start for the urls that are not /api/image or
\* /api/download: a bundled url is answered by get_asset, /api/catalog by
\* get_catalog, "/" and whatever no route matches by get_index.
Handler(url, if_none_match) ==
    /\ catalog_gz # NoAsset
    /\ asset_response' =
         IF url \in DOMAIN assets_gz
           THEN get_asset(url, if_none_match, assets_gz[url])
         ELSE IF url = CatalogUrl
           THEN get_catalog(url, if_none_match, catalog_gz)
         ELSE get_index(url, if_none_match)
    /\ UNCHANGED <<pool_vars, worker_vars, disk_vars, count_vars, response,
                   client_web, catalog_json, assets_gz, catalog_gz, resize_vars,
                   igdb_vars, config_vars>>

(* ------------------------------ image sizes ---------------------------- *)

Min(a, b) == IF a <= b THEN a ELSE b
Max(a, b) == IF a >= b THEN a ELSE b

\* The sides of the source images tried, and the optional bounds.
Sides == (1..MaxSide) \cup {200, 201, 500, 800, 1000, 1200}
Bounds == {None} \cup {Some(b) : b \in Sides}

\* No size computed yet (no image has a side of 0).
NoSize == <<0, 0>>

\* Fault variant of max_dimensions: the two bounds applied to the wrong axes.
max_dimensions_Transposed(dims, bounds) ==
    LET max_width == bounds[1]
        max_height == bounds[2]
    IN  <<IF max_height # None THEN Min(dims[1], max_height[1]) ELSE dims[1],
          IF max_width # None THEN Min(dims[2], max_width[1]) ELSE dims[2]>>

\* max_dimensions(dimensions, max).
max_dimensions(dims, bounds) ==
    LET max_width == bounds[1]
        max_height == bounds[2]
    IN  <<IF max_width # None THEN Min(dims[1], max_width[1]) ELSE dims[1],
          IF max_height # None THEN Min(dims[2], max_height[1]) ELSE dims[2]>>

\* How DynamicImage::thumbnail turns the scaled side into whole pixels: the
\* integer division of image 0.23, or the f64 round() of later releases.
Roundings == {"floor", "nearest"}

\* original.thumbnail(nwidth, nheight): the largest size of the source's
\* aspect ratio that fits in nwidth x nheight, each side at least 1.
thumbnail(dims, nwidth, nheight, rounding) ==
    LET width == dims[1]
        height == dims[2]
        use_width == nwidth * height <= width * nheight
    IN  IF rounding = "floor"
          THEN LET intermediate ==
                     Max(1, IF use_width THEN (height * nwidth) \div width
                                         ELSE (width * nheight) \div height)
               IN  IF use_width THEN <<nwidth, intermediate>>
                                ELSE <<intermediate, nheight>>
          ELSE LET num == IF use_width THEN nwidth ELSE nheight
                   den == IF use_width THEN width ELSE height
                   Scaled(side) == (2 * side * num + den) \div (2 * den)
               IN  <<Max(1, Scaled(width)), Max(1, Scaled(height))>>

\* Fault variant of ThumbnailBounds: the bound put on the width.
ThumbnailBounds_Width == <<Some(200), None>>

\* (None, Some(200)): the bounds the worker passes for the thumbnail.
ThumbnailBounds == <<None, Some(200)>>

\* No size is being computed (the pool and the endpoints leave sizes alone).
NoResize ==
    /\ dimensions = <<1, 1>>
    /\ max = <<None, None>>
    /\ clamped = NoSize
    /\ thumbnail_size = NoSize

\* A call of max_dimensions.
MaxDimensions ==
    /\ clamped = NoSize
    /\ clamped' = max_dimensions(dimensions, max)
    /\ UNCHANGED <<pool_vars, worker_vars, disk_vars, count_vars, response, asset_vars,
                   dimensions, max, thumbnail_size, igdb_vars, config_vars>>

\* The worker's thumbnail of a source it has not yet a thumbnail of:
\* max_dimensions(original.dimensions(), (None, Some(200))), then
\* original.thumbnail(tw, th).
WorkerThumbnail(rounding) ==
    /\ max = ThumbnailBounds
    /\ thumbnail_size = NoSize
    /\ LET t == max_dimensions(dimensions, max)
       IN  thumbnail_size' = thumbnail(dimensions, t[1], t[2], rounding)
    /\ UNCHANGED <<pool_vars, worker_vars, disk_vars, count_vars, response, asset_vars,
                   dimensions, max, clamped, igdb_vars, config_vars>>

(* --------------------------- igdb::get_games --------------------------- *)

\* The lengths of the slug lists: around every multiple of the query limit.
SlugCounts ==
    {b * IGDB_QUERY_LIMIT + d : b \in 0..MaxBatches, d \in {-1, 0, 1}} \cap Nat

\* The slug list of n slugs; the slugs are numbered in list order.
SlugList(n) == [i \in 1..n |-> i]

\* A slug of the list the catalog has no game for.
UnlistedSlugs == {2}

\* The statuses the catalog answers a request with: 200 with the games, 401
\* and 403 (handle_response returns Err(Error::Auth)), 400 (handle_response
\* panics).
HttpStatuses == {200, 401, 403, 400}

\* Result<Vec<Game>, Error>, and no result yet.
NoResult == [tag |-> "None", games |-> << >>, code |-> 0]
Ok(games) == [tag |-> "Ok", games |-> games, code |-> 0]
Err(code) == [tag |-> "Err", games |-> << >>, code |-> code]

\* slugs[start..end]
Slice(list, start, end) == SubSeq(list, start + 1, end)

\* The Game the catalog holds for a slug.
IgdbGame(slug) == [slug |-> slug]

\* What the catalog answers 200 with: the games of the named slugs it lists.
CatalogGames(query) ==
    LET listed == SelectSeq(query, LAMBDA slug : slug \notin UnlistedSlugs)
    IN  [i \in 1..Len(listed) |-> IgdbGame(listed[i])]

\* The slugs the next request names: slugs[start..end] in server/src/igdb.rs,
\* the head slugs[0..IGDB_QUERY_LIMIT] of what is left, or all of it, in
\* src/igdb.rs.
NextQuery ==
    LET start == requests * IGDB_QUERY_LIMIT
        end == Min((requests + 1) * IGDB_QUERY_LIMIT, Len(slugs))
    IN  Slice(slugs, start, end)

\* get_games is not running.
NoGetGames ==
    /\ crate = "server"
    /\ slugs = << >>
    /\ requests = 0
    /\ igdb_games = << >>
    /\ queries = << >>
    /\ responses = << >>
    /\ first_error = NoResult
    /\ gpc = "idle"
    /\ get_games_result = NoResult

\* server/src/igdb.rs, one turn of `while requests * IGDB_QUERY_LIMIT <
\* slugs.len()`: the request for slugs[start..end], then handle_response(..)?
\* and games.append(..); requests += 1.
GetGamesRequest(status) ==
    /\ crate = "server"
    /\ gpc = "loop"
    /\ requests * IGDB_QUERY_LIMIT < Len(slugs)
    /\ queries' = Append(queries, NextQuery)
    /\ responses' = Append(responses, status)
    /\ IF status = 200
         THEN /\ igdb_games' = igdb_games \o CatalogGames(NextQuery)
              /\ requests' = requests + 1
              /\ UNCHANGED <<gpc, get_games_result>>
         ELSE /\ gpc' = IF status = 400 THEN "panicked" ELSE "returned"
              /\ get_games_result' = IF status = 400 THEN NoResult ELSE Err(status)
              /\ UNCHANGED <<igdb_games, requests>>
    /\ UNCHANGED <<pool_vars, worker_vars, disk_vars, count_vars, response, asset_vars,
                   resize_vars, config_vars, crate, slugs, first_error>>

\* server/src/igdb.rs: the while condition is false, Ok(games).
GetGamesReturn ==
    /\ crate = "server"
    /\ gpc = "loop"
    /\ ~(requests * IGDB_QUERY_LIMIT < Len(slugs))
    /\ gpc' = "returned"
    /\ get_games_result' = Ok(igdb_games)
    /\ UNCHANGED <<pool_vars, worker_vars, disk_vars, count_vars, response, asset_vars,
                   resize_vars, config_vars, crate, slugs, requests, igdb_games, queries,
                   responses, first_error>>

\* src/igdb.rs, the request of one recursive call: for a list longer than
\* the limit `let head = get_games(.., &slugs[0..IGDB_QUERY_LIMIT])`, else
\* the request for the whole list. An Err head is kept and the tail is still
\* evaluated; requests counts the heads done.
GetGamesHead(status) ==
    /\ crate = "root"
    /\ gpc = "loop"
    /\ requests * IGDB_QUERY_LIMIT < Len(slugs)
    /\ queries' = Append(queries, NextQuery)
    /\ responses' = Append(responses, status)
    /\ IF status = 400
         THEN /\ gpc' = "panicked"
              /\ UNCHANGED <<igdb_games, requests, first_error>>
         ELSE /\ requests' = requests + 1
              /\ igdb_games' = IF status = 200
                                 THEN igdb_games \o CatalogGames(NextQuery)
                                 ELSE igdb_games
              /\ first_error' = IF status # 200 /\ first_error = NoResult
                                  THEN Err(status) ELSE first_error
              /\ UNCHANGED gpc
    /\ UNCHANGED <<pool_vars, worker_vars, disk_vars, count_vars, response, asset_vars,
                   resize_vars, config_vars, crate, slugs, get_games_result>>

\* src/igdb.rs: the recursion has reached the end of the list and the
\* matches return: (Ok(head), Ok(tail)) => Ok([head, tail].concat()),
\* (err @ Err(_), _) | (_, err @ Err(_)) => err.
GetGamesMatch ==
    /\ crate = "root"
    /\ gpc = "loop"
    /\ ~(requests * IGDB_QUERY_LIMIT < Len(slugs))
    /\ gpc' = "returned"
    /\ get_games_result' = IF first_error = NoResult THEN Ok(igdb_games)
                                                     ELSE first_error
    /\ UNCHANGED <<pool_vars, worker_vars, disk_vars, count_vars, response, asset_vars,
                   resize_vars, config_vars, crate, slugs, requests, igdb_games, queries,
                   responses, first_error>>

(* ----------------------- config::drain_duplicates ---------------------- *)

\* The games a configuration lists: config::Game { path, slug }.
GamePaths == {"Cave Story.zip", "cs.zip"}
GameSlugs == {"cave-story", "diablo-ii", "the-witness"}
ConfigGames == [path : GamePaths, slug : GameSlugs]
GameLists == UNION {[1..n -> ConfigGames] : n \in 0..MaxGames}

\* drain_duplicates is not running.
NoConfig ==
    /\ config_games = << >>
    /\ input_games = << >>
    /\ conflicting_games = << >>
    /\ drained = FALSE

\* slugs_by_count: how many games of the list have each slug.
slugs_by_count(games) ==
    [slug \in {games[i].slug : i \in 1..Len(games)} |->
       Cardinality({i \in 1..Len(games) : games[i].slug = slug})]

\* Fault variant of conflicting_slugs: a slug counts from its third game on.
conflicting_slugs_MoreThanTwo(games) ==
    {slug \in DOMAIN slugs_by_count(games) : slugs_by_count(games)[slug] > 2}

\* filter_map(|(slug, count)| if count > 1 { Some(slug) } else { None })
conflicting_slugs(games) ==
    {slug \in DOMAIN slugs_by_count(games) : slugs_by_count(games)[slug] > 1}

\* The orders in which slugs_by_count.into_iter() can yield a set of slugs.
IterationOrders(set) ==
    {order \in [1..Cardinality(set) -> set] :
       \A i, j \in 1..Cardinality(set) : i # j => order[i] # order[j]}

\* games.drain_filter(|game| slug == game.slug.as_str()).collect(): the
\* games that stay and the games drained, both in list order.
drain_filter(games, slug) ==
    [kept |-> SelectSeq(games, LAMBDA game : game.slug # slug),
     drained |-> SelectSeq(games, LAMBDA game : game.slug = slug)]

\* conflicting_slugs.map(|slug| games.drain_filter(..).collect()).collect():
\* one group per conflicting slug, in iteration order.
RECURSIVE drain_each(_, _)
drain_each(games, order) ==
    IF order = << >>
      THEN [games |-> games, groups |-> << >>]
      ELSE LET step == drain_filter(games, Head(order))
               rest == drain_each(step.kept, Tail(order))
           IN  [games |-> rest.games, groups |-> <<step.drained>> \o rest.groups]

\* drain_duplicates(&mut config.games), as Config::from_str calls it.
DrainDuplicates ==
    /\ ~drained
    /\ \E order \in IterationOrders(conflicting_slugs(config_games)) :
         LET out == drain_each(config_games, order)
         IN  /\ config_games' = out.games
             /\ conflicting_games' = out.groups
    /\ drained' = TRUE
    /\ UNCHANGED <<pool_vars, worker_vars, disk_vars, count_vars, response, asset_vars,
                   resize_vars, igdb_vars, input_games>>

(* ------------------------------- Next ---------------------------------- *)

\* Every index a spawned thread can have, and the one past them.
ThreadIndices == 0..MaxThreads

Dispatcher ==
    \/ DispatcherTake
    \/ DispatcherWait
    \/ DispatcherSend
    \/ DispatcherReturn

WorkerStep(t) ==
    \/ WorkerReceive(t)
    \/ WorkerExit(t)
    \/ WorkerImageCache(t)
    \/ WorkerOpenOriginal(t)
    \/ WorkerFetch(t)
    \/ WorkerSaveOriginal(t)
    \/ WorkerWriteOriginal(t)
    \/ WorkerOpenThumbnail(t)
    \/ WorkerSaveThumbnail(t)
    \/ WorkerWriteThumbnail(t)
    \/ WorkerSignal(t)

Request == \E id \in ImageIds, param \in SizeParams : GetImage(id, param)

RequestFailure ==
    \E id \in ImageIds, param \in SizeParams : GetImageCacheFail(id, param)

Init ==
    InitPool(MaxThreads, MaxJobs) /\ AssetsNotBuilt /\ NoResize /\ NoGetGames /\ NoConfig

InitServe ==
    /\ InitPool(MaxServeThreads, MaxServeJobs)
    /\ AssetsNotBuilt /\ NoResize /\ NoGetGames /\ NoConfig

\* The server before start builds the model, for every content of the
\* bundled urls and of the catalog; no prefetch pool runs.
InitAssets ==
    /\ InitPool(1, 0)
    /\ client_web \in [AssetUrls -> Payloads]
    /\ catalog_json \in Payloads
    /\ assets_gz = NoAssets
    /\ catalog_gz = NoAsset
    /\ asset_response = NoAssetResponse
    /\ NoResize
    /\ NoGetGames
    /\ NoConfig

AssetRequest ==
    \E url \in RequestUrls, if_none_match \in Validators : Handler(url, if_none_match)

NextAssets ==
    \/ Start
    \/ AssetRequest

AssetSpec == InitAssets /\ [][NextAssets]_vars

\* max_dimensions and the worker's thumbnail for every source size and every
\* pair of optional bounds; nothing else runs.
InitResize ==
    /\ InitPool(1, 0)
    /\ AssetsNotBuilt
    /\ dimensions \in Sides \X Sides
    /\ max \in Bounds \X Bounds
    /\ clamped = NoSize
    /\ thumbnail_size = NoSize
    /\ NoGetGames
    /\ NoConfig

NextResize ==
    \/ MaxDimensions
    \/ \E rounding \in Roundings : WorkerThumbnail(rounding)

ResizeSpec == InitResize /\ [][NextResize]_vars

Workers ==
    \/ \E t \in ThreadIndices : WorkerReceive(t)
    \/ \E t \in ThreadIndices : WorkerExit(t)
    \/ \E t \in ThreadIndices : WorkerImageCache(t)
    \/ \E t \in ThreadIndices : WorkerOpenOriginal(t)
    \/ \E t \in ThreadIndices : WorkerFetch(t)
    \/ \E t \in ThreadIndices : WorkerSaveOriginal(t)
    \/ \E t \in ThreadIndices : WorkerWriteOriginal(t)
    \/ \E t \in ThreadIndices : WorkerOpenThumbnail(t)
    \/ \E t \in ThreadIndices : WorkerSaveThumbnail(t)
    \/ \E t \in ThreadIndices : WorkerWriteThumbnail(t)
    \/ \E t \in ThreadIndices : WorkerSignal(t)

WorkerFailures ==
    \/ \E t \in ThreadIndices : WorkerImageCacheFail(t)
    \/ \E t \in ThreadIndices : WorkerFetchFail(t)
    \/ \E t \in ThreadIndices : WorkerPanic(t)

\* get_games of either crate, called with a slug list of every length around
\* the multiples of the query limit; the catalog answers every request with
\* any status. Nothing else runs.
InitGetGames ==
    /\ InitPool(1, 0)
    /\ AssetsNotBuilt
    /\ NoResize
    /\ NoConfig
    /\ crate \in {"server", "root"}
    /\ slugs \in {SlugList(n) : n \in SlugCounts}
    /\ requests = 0
    /\ igdb_games = << >>
    /\ queries = << >>
    /\ responses = << >>
    /\ first_error = NoResult
    /\ gpc = "loop"
    /\ get_games_result = NoResult

NextGetGames ==
    \/ \E status \in HttpStatuses : GetGamesRequest(status)
    \/ GetGamesReturn
    \/ \E status \in HttpStatuses : GetGamesHead(status)
    \/ GetGamesMatch

GetGamesSpec == InitGetGames /\ [][NextGetGames]_vars

\* Config::from_str about to look for duplicate entries, for every list of
\* games; nothing else runs.
InitConfig ==
    /\ InitPool(1, 0)
    /\ AssetsNotBuilt
    /\ NoResize
    /\ NoGetGames
    /\ config_games \in GameLists
    /\ input_games = config_games
    /\ conflicting_games = << >>
    /\ drained = FALSE

NextConfig == DrainDuplicates

ConfigSpec == InitConfig /\ [][NextConfig]_vars

\* The pool alone with every failure it can meet. No action of the pool reads
\* what an image request changes (the directories, which image_cache creates
\* idempotently, and the response).
Next ==
    \/ Dispatcher
    \/ Workers
    \/ WorkerFailures

Spec == Init /\ [][Next]_vars

\* The pool with image requests arriving at any moment.
NextServe ==
    \/ Dispatcher
    \/ Workers
    \/ WorkerFailures
    \/ Request
    \/ RequestFailure

ServeSpec == InitServe /\ [][NextServe]_vars

\* Runs in which every remote fetch, decode, create_dir and save succeeds,
\* with every thread (the dispatcher's and each worker's) scheduled fairly.
NextNoFailure ==
    \/ Dispatcher
    \/ Workers

FairSpec ==
    /\ Init
    /\ [][NextNoFailure]_vars
    /\ WF_vars(Dispatcher)
    /\ \A t \in ThreadIndices : WF_vars(WorkerStep(t))

\* Runs of a small pool in which any fetch, decode, create_dir or save may
\* fail, with every thread scheduled fairly: a thread that can take a step
\* takes it or fails.
FairFailureSpec ==
    /\ InitServe
    /\ [][Next]_vars
    /\ WF_vars(Dispatcher)
    /\ \A t \in ThreadIndices : WF_vars(WorkerStep(t))

(* ------------------------------ properties ----------------------------- *)

\* The threads inside the fetch / decode / resize / save step.
Deriving == {t \in Threads : wpc[t] \in DerivingPcs}

\* How often an identifier occurs in the whole job stream, and among the
\* identifiers the dispatcher has taken so far.
Occurrences(id) == Cardinality({i \in 1..Len(jobs) : jobs[i] = id})
TakenOccurrences(id) == Cardinality({i \in 1..taken : jobs[i] = id})

\* The thread has an identifier whose completion it has not signalled: in its
\* inbox, or received and not yet signalled.
HoldsJob(t) == inbox[t] # << >> \/ image_id[t] # NoImage

\* The dispatcher has taken an identifier it has not yet sent.
DispatcherHoldsJob == dpc \in {"wait", "send"}

\* Identifiers taken from the stream whose completion is not yet signalled.
Outstanding ==
    Cardinality({t \in Threads : inbox[t] # << >>})
    + Cardinality({t \in Threads : image_id[t] # NoImage})
    + (IF DispatcherHoldsJob THEN 1 ELSE 0)

Cached(id) ==
    /\ files[<<id, OriginalJpeg>>] = "complete"
    /\ files[<<id, ThumbnailJpeg>>] = "complete"

\* Both renditions are cached and no thread is still in a derivation of the
\* identifier that it began before they were.
Quiet(id) ==
    /\ Cached(id)
    /\ \A t \in Threads :
         image_id[t] = id =>
           wpc[t] \notin {"fetch", "save_original", "write_original",
                          "save_thumbnail", "write_thumbnail"}

\* The file a request of a valid size is answered from, as the interface
\* states it: size=Thumbnail is thumbnail.jpeg, size=Original is original.jpeg.
RenditionFile(param) ==
    IF param = "Thumbnail" THEN "thumbnail.jpeg" ELSE "original.jpeg"

\* The step is an image request (only get_image changes the response).
IsRequest == response' # response

\* C1. Bounded concurrency: in every reachable state at most thread_count
\* identifiers are inside the fetch / decode / resize / save step at once.
C1_BoundedConcurrency == Cardinality(Deriving) <= thread_count

\* C1 witness: a stream longer than the pool, every worker deriving, and the
\* dispatcher holding a further identifier.
C1_Witness ==
    /\ thread_count >= 2
    /\ Len(jobs) > thread_count
    /\ Cardinality(Deriving) = thread_count
    /\ dpc = "wait"

\* C2 as stated: at most thread_count + 1 identifiers are taken and not yet
\* signalled, and while every worker holds an unfinished job and no completion
\* signal is pending the dispatcher takes no identifier from the stream.
C2_TotalBackPressure ==
    /\ [](Outstanding <= thread_count + 1)
    /\ [][((\A t \in Threads : HoldsJob(t)) /\ job_finished = << >>)
            => taken' = taken]_vars

\* C2 amended: at most thread_count + 1 identifiers are taken and not yet
\* signalled; with every worker holding an unfinished job and no completion
\* pending the dispatcher may take one identifier, and while it holds that one
\* it takes no other.
C2_BackPressureAfterOne ==
    /\ [](Outstanding <= thread_count + 1)
    /\ [][((\A t \in Threads : HoldsJob(t)) /\ job_finished = << >>
             /\ DispatcherHoldsJob)
            => taken' = taken]_vars

\* C2 witness: every worker holds an unfinished job, nothing is signalled and
\* the dispatcher is blocked holding one more.
C2_Witness ==
    /\ \A t \in Threads : image_id[t] # NoImage /\ wpc[t] \in DerivingPcs
    /\ job_finished = << >>
    /\ dpc = "wait"
    /\ Outstanding = thread_count + 1
    /\ taken < Len(jobs)

\* C3 as stated: a failed derivation ends only its job; the worker that ran it
\* stays alive (and so can signal and take later jobs).
C3_FailureIsolation == \A t \in Threads : wpc[t] # "panicked"

\* C4. Dispatch liveness: with every derivation succeeding and fair
\* scheduling, the dispatch loop eventually has handed over every identifier
\* of the stream and returned.
C4_DispatchLiveness == <>(dpc = "returned" /\ taken = Len(jobs))

\* C4 witness: the dispatcher has returned from a stream longer than the pool,
\* so it went through the completion channel.
C4_Witness ==
    /\ dpc = "returned"
    /\ Len(jobs) > thread_count
    /\ \A t \in Threads : inbox[t] = << >>

\* C5. Single remote fetch: the jobs of an identifier never make more remote
\* fetches than there are jobs (a job fetches at most once, never again for
\* the thumbnail), and the one job of an identifier that was not cached has,
\* when it is done, made exactly one fetch and written both files from it.
C5_SingleFetch ==
    /\ \A id \in ImageIds : fetched[id] <= TakenOccurrences(id)
    /\ \A t \in Threads :
         (wpc[t] \in {"signal", "send_panicked"} /\ Occurrences(image_id[t]) = 1)
           => /\ fetched[image_id[t]] = 1
              /\ Cached(image_id[t])
              /\ writes[<<image_id[t], OriginalJpeg>>] = 1
              /\ writes[<<image_id[t], ThumbnailJpeg>>] = 1

\* C5 witness: a job of a fresh identifier is done after one fetch.
C5_Witness ==
    \E t \in Threads :
        /\ wpc[t] = "signal"
        /\ Occurrences(image_id[t]) = 1
        /\ fetched[image_id[t]] = 1
        /\ Cached(image_id[t])

\* C6. Idempotent read: once both renditions of an identifier are cached and
\* no thread is still deriving it, no step of any job of that identifier
\* fetches, writes a file or changes the two files, and this stays so.
C6_IdempotentRead ==
    [][\A id \in ImageIds :
         Quiet(id) =>
           /\ Quiet(id)'
           /\ fetched'[id] = fetched[id]
           /\ \A f \in FileNames :
                /\ files'[<<id, f>>] = files[<<id, f>>]
                /\ writes'[<<id, f>>] = writes[<<id, f>>]]_vars

\* C6 witness: a single worker processes an identifier again (it is past the
\* original and the thumbnail is already there) after the one fetch and the
\* one write of each file that cached it.
C6_Witness ==
    /\ thread_count = 1
    /\ wpc[0] = "open_thumbnail"
    /\ Quiet(image_id[0])
    /\ fetched[image_id[0]] = 1
    /\ \A f \in FileNames : writes[<<image_id[0], f>>] = 1

\* C7 as stated: over any execution, also with an identifier that occurs more
\* than once in the stream, every cache file is written at most once.
C7_CreatedAtMostOnce == \A p \in Paths : writes[p] <= 1

\* C7 amended: the files of an identifier that occurs at most once in the
\* stream are each written at most once and, once complete, never change.
C7_CreatedOncePerSingleJob ==
    /\ [](\A p \in Paths : Occurrences(p[1]) <= 1 => writes[p] <= 1)
    /\ [][\A p \in Paths :
            (Occurrences(p[1]) <= 1 /\ files[p] = "complete")
              => files'[p] = "complete"]_vars

\* C7 witness: the job of an identifier that occurs once has written both
\* files, once each, and another job is still running.
C7_Witness ==
    \E t, u \in Threads :
        /\ t # u
        /\ wpc[t] = "idle"
        /\ wpc[u] \in DerivingPcs
        /\ \E id \in ImageIds :
             /\ Occurrences(id) = 1
             /\ Cached(id)
             /\ \A f \in FileNames : writes[<<id, f>>] = 1

\* C8 as stated: an image request never answers 200 with a partially written
\* file.
C8_NoPartialFile == response.status = 200 => response.body = "complete"

C10_MissingSizeRejection ==
    [][(IsRequest /\ response'.size \notin {"Thumbnail", "Original"})
         => /\ response'.status = 404
            /\ response'.ops = {}
            /\ UNCHANGED <<cache_root, image_dirs, files, writer, fetched, writes>>]_vars

\* C10 witness: a request with an unknown size was answered 404 although the
\* identifier's renditions are cached, and one without a size likewise.
C10_Witness ==
    /\ response.status = 404
    /\ response.size \in {NoParam, "thumbnail"}
    /\ response.ops = {}
    /\ Cached(response.id)

\* C11 as stated: every response of the image endpoint is 200 with content
\* type image/jpeg and Cache-Control "max-age=10368000, immutable", or 404;
\* no other status is produced.
C11_ImageResponseShape ==
    response # NoResponse =>
        \/ response.status = 404
        \/ /\ response.status = 200
           /\ response.content_type = "image/jpeg"
           /\ response.cache_control = "max-age=10368000, immutable"

\* C11 amended: every response of the image endpoint is 200 with content type
\* image/jpeg, Cache-Control "max-age=10368000, immutable" and the file of the
\* requested rendition as the handler found it, or 404, or, when image_cache
\* could not create a cache directory for a request of a valid size, 500.
C11_ImageResponseShapeOr500 ==
    [][IsRequest =>
         LET r == response'
             p == <<r.id, RenditionFile(r.size)>>
         IN  \/ r.status = 404
             \/ /\ r.status = 200
                /\ r.size \in {"Thumbnail", "Original"}
                /\ r.content_type = "image/jpeg"
                /\ r.cache_control = "max-age=10368000, immutable"
                /\ files[p] # "absent"
                /\ r.body = files[p]
             \/ /\ r.status = 500
                /\ r.size \in {"Thumbnail", "Original"}
                /\ r.ops = {"create_dir"}
                /\ ~cache_root \/ r.id \notin image_dirs]_vars

\* C11 witness: the original of an identifier a job has cached was served.
C11_Witness ==
    /\ response.status = 200
    /\ response.size = "Original"
    /\ response.content_type = "image/jpeg"
    /\ response.body = "complete"
    /\ Cached(response.id)

\* The uncompressed content a url stands for: the catalog document, the
\* bundled asset of that url, or the index for the root and any other path.
ContentOf(url) ==
    IF url = "/api/catalog" THEN catalog_json
    ELSE IF url \in DOMAIN client_web THEN client_web[url]
    ELSE client_web["/index.html"]

\* The ETag of a url: the hash of its compressed content.
CurrentETag(url) == encoded_hash(gzip(ContentOf(url)))

\* C12. Conditional serving: a request for the index, the catalog or a bundled
\* asset whose validator equals the current ETag is answered 304 with an empty
\* body; with another or no validator it is answered 200 with the whole
\* compressed content.
C12_ConditionalServing ==
    asset_response # NoAssetResponse =>
        IF asset_response.if_none_match = Some(CurrentETag(asset_response.url))
          THEN /\ asset_response.status = 304
               /\ asset_response.body = << >>
          ELSE /\ asset_response.status = 200
               /\ asset_response.body = gzip(ContentOf(asset_response.url))

\* C12 witness: the root was asked for with the index's current ETag and
\* answered 304 although another bundled asset has other content.
C12_Witness ==
    /\ asset_response.url = "/"
    /\ asset_response.status = 304
    /\ asset_response.if_none_match = Some(CurrentETag("/index.html"))
    /\ client_web["/logo.svg"] # client_web["/index.html"]

\* C13 as stated: every 200 response for the index, the catalog or a bundled
\* asset has Content-Encoding gzip, the envelope's hash as ETag and a max-age
\* of less than one hour.
C13_ShortLivedHeaders ==
    asset_response.status = 200 =>
        /\ asset_response.content_encoding = "gzip"
        /\ asset_response.etag = Some(CurrentETag(asset_response.url))
        /\ asset_response.max_age < 3600

\* C13 amended: every 200 response for the index, the catalog or a bundled
\* asset has Content-Encoding gzip and the envelope's hash as ETag; its max-age
\* is 60 seconds for the catalog and for the index served at the root or at
\* an unmatched path, and 86400 seconds (one day) for a bundled asset asked
\* for by its url, /index.html included.
C13_ResponseHeaders ==
    asset_response.status = 200 =>
        /\ asset_response.content_encoding = "gzip"
        /\ asset_response.etag = Some(CurrentETag(asset_response.url))
        /\ asset_response.max_age =
             IF asset_response.url \in DOMAIN client_web THEN 86400 ELSE 60

\* C13 witness: a bundled asset was served whole with a max-age of one day.
C13_Witness ==
    /\ asset_response.status = 200
    /\ asset_response.url = "/logo.svg"
    /\ asset_response.if_none_match # None
    /\ asset_response.max_age = 86400

\* The server holds envelopes: start has built the model.
Serving == catalog_gz # NoAsset

C15_ClampCorrectness ==
    clamped # NoSize =>
        /\ \A axis \in {1, 2} :
             /\ clamped[axis] <= dimensions[axis]
             /\ max[axis] = None => clamped[axis] = dimensions[axis]
             /\ max[axis] # None
                  => /\ clamped[axis] <= max[axis][1]
                     /\ clamped[axis] \in {dimensions[axis], max[axis][1]}
        /\ (dimensions = <<1000, 500>> /\ max = <<None, Some(200)>>)
             => clamped = <<1000, 200>>

\* C15 witness: 1000x500 with (None, Some(200)) was clamped to 1000x200.
C15_Witness ==
    /\ dimensions = <<1000, 500>>
    /\ max = <<None, Some(200)>>
    /\ clamped = <<1000, 200>>

\* C16 as stated: the thumbnail of a w x h source has height at most 200 and
\* width at most w, has exactly the source's aspect ratio, and is not larger
\* than the source on either axis.
C16_ThumbnailExactRatio ==
    thumbnail_size # NoSize =>
        /\ thumbnail_size[2] <= 200
        /\ thumbnail_size[1] <= dimensions[1]
        /\ thumbnail_size[2] <= dimensions[2]
        /\ thumbnail_size[1] * dimensions[2] = dimensions[1] * thumbnail_size[2]

\* C16 amended: the thumbnail of a w x h source has height min(h, 200), a
\* width of at least 1 and at most w that is less than one pixel away from
\* w * height / h (the source's aspect ratio in whole pixels), and is not
\* larger than the source on either axis; 1200x800 gives 300x200.
C16_ThumbnailSize ==
    thumbnail_size # NoSize =>
        LET w == dimensions[1]
            h == dimensions[2]
            tw == thumbnail_size[1]
            th == thumbnail_size[2]
        IN  /\ th <= 200 /\ th <= h
            /\ th \in {h, 200}
            /\ 1 <= tw /\ tw <= w
            /\ tw * h - w * th < h
            /\ w * th - tw * h < h
            /\ dimensions = <<1200, 800>> => thumbnail_size = <<300, 200>>

\* C16 witness: the thumbnail of a 1200x800 source is 300x200.
C16_Witness ==
    /\ dimensions = <<1200, 800>>
    /\ thumbnail_size = <<300, 200>>

\* Something in or of the directory ./cache/<id> is created or written in
\* this step.
DirTouched(id) ==
    \/ (id \in image_dirs') # (id \in image_dirs)
    \/ \E f \in FileNames :
         \/ files'[<<id, f>>] # files[<<id, f>>]
         \/ writes'[<<id, f>>] # writes[<<id, f>>]

\* C17. On-disk layout frame: a directory ./cache/<id> exists only inside
\* ./cache and a cache file only inside its directory and only for an
\* identifier handed to a job; whatever is created or written under
\* ./cache/<id> is so by a step of a job of that identifier or by a request
\* that names it, never by a job or request of another identifier.
C17_LayoutFrame ==
    /\ [](/\ image_dirs # {} => cache_root
          /\ \A p \in Paths :
               files[p] # "absent"
                 => /\ p[1] \in image_dirs
                    /\ TakenOccurrences(p[1]) > 0)
    /\ [][\A id \in ImageIds :
            DirTouched(id)
              => \/ \E t \in Threads : image_id[t] = id /\ wpc'[t] # wpc[t]
                 \/ IsRequest /\ response'.id = id]_vars

\* C17 witness: a job has cached one identifier and a request has made the
\* directory of another, which holds no file.
C17_Witness ==
    \E a, b \in ImageIds :
        /\ a # b
        /\ Cached(a)
        /\ TakenOccurrences(b) = 0
        /\ b \in image_dirs
        /\ response.id = b
        /\ \A f \in FileNames : files[<<b, f>>] = "absent"

\* The one job of the identifier thread t holds ended in a panic after its
\* remote fetch and before original.jpeg was created: the fetch (or the
\* decoding of what it returned) failed.
FetchFailed(t) ==
    /\ wpc[t] = "panicked"
    /\ Occurrences(image_id[t]) = 1
    /\ fetched[image_id[t]] >= 1
    /\ writes[<<image_id[t], OriginalJpeg>>] = 0

\* C18. Remote-fetch failure leaves no entry: the step in which the fetch of
\* a job fails writes nothing; the job is over (no second fetch, no file
\* written later); neither file of the identifier exists afterwards and a
\* later request of a valid size for it is answered 404.
C18_FetchFailureNoEntry ==
    /\ [][\A t \in ThreadIndices :
            (t \in Threads /\ wpc[t] = "fetch" /\ wpc'[t] = "panicked")
              => /\ UNCHANGED <<cache_root, image_dirs, files, writes>>
                 /\ fetched'[image_id[t]] = fetched[image_id[t]] + 1]_vars
    /\ [][\A t \in ThreadIndices :
            (t \in Threads /\ wpc[t] = "panicked") => wpc'[t] = "panicked"]_vars
    /\ [](\A t \in Threads :
            FetchFailed(t)
              => /\ fetched[image_id[t]] = 1
                 /\ \A f \in FileNames :
                      /\ files[<<image_id[t], f>>] = "absent"
                      /\ writes[<<image_id[t], f>>] = 0)
    /\ [][(IsRequest /\ response'.size \in {"Thumbnail", "Original"}
            /\ \E t \in Threads : FetchFailed(t) /\ image_id[t] = response'.id)
           => response'.status = 404]_vars

\* C18 witness: the fetch of an identifier's only job failed and a request for
\* its thumbnail was answered 404 after looking for the file.
C18_Witness ==
    \E t \in Threads :
        /\ FetchFailed(t)
        /\ response.id = image_id[t]
        /\ response.size = "Thumbnail"
        /\ response.status = 404
        /\ "open" \in response.ops

\* The identifiers the dispatcher has taken and let go of: all it has taken
\* but the one it still holds.
Released == taken - (IF DispatcherHoldsJob THEN 1 ELSE 0)

\* How often an identifier occurs among them, and in the inboxes.
ReleasedOccurrences(id) == Cardinality({i \in 1..Released : jobs[i] = id})
Queued(id) == Cardinality({t \in Threads : inbox[t] # << >> /\ Head(inbox[t]) = id})

\* C19. Exactly-once assignment: every identifier the dispatcher has taken and
\* let go of was sent, as often as it occurs among them, and each send was
\* either received once by a worker or is still in an inbox; a send puts the
\* job into the inbox of exactly one spawned worker, and an inbox loses an
\* identifier only to its own worker, which receives that identifier.
C19_ExactlyOnce ==
    /\ [](\A id \in ImageIds :
            /\ handed[id] = ReleasedOccurrences(id)
            /\ delivered[id] + Queued(id) = handed[id])
    /\ [][(dpc = "send" /\ dpc' # "send")
           => \E t \in Threads :
                inbox' = [inbox EXCEPT ![t] = Append(@, jobs[taken])]]_vars
    /\ [][\A t \in ThreadIndices :
            (t \in Threads /\ inbox'[t] # inbox[t])
              => \/ dpc = "send" /\ inbox'[t] = Append(inbox[t], jobs[taken])
                 \/ /\ inbox[t] # << >>
                    /\ inbox'[t] = Tail(inbox[t])
                    /\ image_id'[t] = Head(inbox[t])
                    /\ image_id[t] = NoImage]_vars

\* C19 witness: with two workers an identifier that occurs twice in the
\* stream was delivered twice, and the whole stream has been received.
C19_Witness ==
    /\ thread_count = 2
    /\ Len(jobs) = 3
    /\ jobs[1] = jobs[3]
    /\ jobs[1] # jobs[2]
    /\ delivered[jobs[1]] = 2
    /\ delivered[jobs[2]] = 1
    /\ dpc = "returned"

\* C20. Hand-off never blocks: whenever the dispatcher is about to send, to a
\* thread it found not busy or to the one whose index it received from the
\* completion channel, that worker is alive and waiting for a job with an
\* empty inbox; and every worker holds at most one identifier, queued or in
\* progress.
C20_HandOffNeverBlocks ==
    /\ dpc = "send"
         => /\ target \in Threads
            /\ inbox[target] = << >>
            /\ wpc[target] = "idle"
            /\ image_id[target] = NoImage
    /\ \A t \in Threads :
         Len(inbox[t]) + (IF image_id[t] # NoImage THEN 1 ELSE 0) <= 1

\* C20 witness: every thread is marked busy and the dispatcher is about to
\* send to the one that signalled while another is still deriving.
C20_Witness ==
    /\ dpc = "send"
    /\ \A t \in Threads : is_busy[t]
    /\ taken > thread_count
    /\ \E u \in Threads : u # target /\ wpc[u] \in DerivingPcs

\* The file exists (whole, or created and not yet wholly written).
Present(p) == files[p] # "absent"

C22_CompletionNeverBlocks ==
    /\ Len(job_finished) <= thread_count
    /\ \A i, j \in 1..Len(job_finished) : i # j => job_finished[i] # job_finished[j]
    /\ \A t \in Threads :
         (wpc[t] = "signal" /\ ~DispatcherGone) => Len(job_finished) < thread_count

\* C22 witness: the channel is full, every worker having signalled its first
\* job before the dispatcher asked for a completion, and a job is left to take.
C22_Witness ==
    /\ thread_count = 2
    /\ Len(job_finished) = thread_count
    /\ dpc = "loop"
    /\ taken < Len(jobs)

\* Every job of the identifier has been received and has run to the end of
\* its derivation: no worker holds the identifier any more, or it holds it
\* only for the completion signal.
AllJobsDone(id) ==
    /\ delivered[id] = Occurrences(id)
    /\ \A t \in Threads :
         image_id[t] = id => wpc[t] \in {"signal", "send_panicked"}

\* C23. Tolerated duplicate-derivation race: once all jobs of an identifier
\* that occurs more than once have run to their end, whether or not they
\* overlapped and fetched and wrote twice, original.jpeg and thumbnail.jpeg
\* both exist, each a whole file and no longer being written.
C23_DuplicateRace ==
    \A id \in ImageIds :
        (Occurrences(id) >= 2 /\ AllJobsDone(id))
          => /\ Cached(id)
             /\ \A f \in FileNames : writer[<<id, f>>] = NoThread

\* C23 witness: two workers missed the cold cache for the same identifier,
\* both fetched and both wrote both files, and both jobs are done.
C23_Witness ==
    \E id \in ImageIds :
        /\ Occurrences(id) = 2
        /\ AllJobsDone(id)
        /\ fetched[id] = 2
        /\ \A f \in FileNames : writes[<<id, f>>] = 2
        /\ Cached(id)

\* An identifier is queued in an inbox or in the derivation step of a worker.
Pending(id) ==
    \/ handed[id] > delivered[id]
    \/ \E t \in Threads : image_id[t] = id /\ wpc[t] \in DerivingPcs

\* A worker ended in a hard failure while it held the identifier.
HardFailure(id) == \E t \in Threads : image_id[t] = id /\ wpc[t] = "panicked"

\* C24. No cancellation: an identifier handed to a worker is eventually
\* taken from the inbox and its derivation run to the end, with both files
\* whole, or to a hard failure, also when the dispatcher has returned in the
\* meantime; and a worker leaves the derivation step only to the completion
\* signal or by a hard failure.
C24_NoCancellation ==
    /\ \A id \in ImageIds :
         Pending(id) ~> (~Pending(id) /\ (Cached(id) \/ HardFailure(id)))
    /\ [][\A t \in ThreadIndices :
            (t \in Threads /\ wpc[t] \in DerivingPcs)
              => wpc'[t] \in DerivingPcs \cup {"signal", "panicked"}]_vars
    /\ [][\A t \in ThreadIndices :
            (t \in Threads /\ inbox'[t] # inbox[t] /\ Len(inbox'[t]) < Len(inbox[t]))
              => (wpc'[t] = "image_cache" /\ image_id'[t] = Head(inbox[t]))]_vars

\* C24 witness: the dispatcher had returned while a worker still held an
\* identifier; the worker wrote both files and reached its completion send
\* with the receiver gone.
C24_Witness ==
    /\ dpc = "returned"
    /\ \E t \in Threads :
         /\ wpc[t] = "send_panicked"
         /\ Cached(image_id[t])
         /\ \A f \in FileNames : writes[<<image_id[t], f>>] >= 1

\* A step in which worker t calls image_cache, and one in which a request
\* does.
WorkerCallsImageCache(t) ==
    t \in Threads /\ wpc[t] = "image_cache" /\ wpc'[t] # "image_cache"
RequestCallsImageCache == IsRequest /\ "create_dir" \in response'.ops

\* What a call of image_cache(id) may do: with the directory of id there it
\* changes nothing on disk and succeeds; a call that succeeds leaves ./cache
\* and ./cache/<id> there and makes no other directory; a call that fails
\* makes no identifier directory; no call touches a file.
ImageCacheEffect(id, failed) ==
    /\ id \in image_dirs => (~failed /\ UNCHANGED <<cache_root, image_dirs>>)
    /\ ~failed => (cache_root' /\ image_dirs' = image_dirs \cup {id})
    /\ failed => image_dirs' = image_dirs
    /\ UNCHANGED files

\* C25. Idempotent directory creation: a call of image_cache for an
\* identifier whose directory exists, from a worker or from a request and
\* in any interleaving with other calls, changes nothing on disk and does
\* not fail; a call that succeeds creates at most ./cache and ./cache/<id>;
\* a call that fails ends the worker thread or the request (500).
C25_IdempotentImageCache ==
    /\ [][\A t \in ThreadIndices :
            WorkerCallsImageCache(t)
              => /\ wpc'[t] \in {"open_original", "panicked"}
                 /\ ImageCacheEffect(image_id[t], wpc'[t] = "panicked")]_vars
    /\ [][RequestCallsImageCache
            => ImageCacheEffect(response'.id, response'.status = 500)]_vars

\* C25 witness: a worker and a request have both called image_cache for the
\* same identifier and both calls succeeded, the later one on the existing
\* directory.
C25_Witness ==
    /\ "create_dir" \in response.ops
    /\ response.status # 500
    /\ response.id \in image_dirs
    /\ \E t \in Threads :
         /\ image_id[t] = response.id
         /\ wpc[t] \in DerivingPcs \ {"image_cache"}

\* C26. No worker panic in failure-free runs: with every fetch, decode,
\* create_dir and save succeeding, no worker thread ends in a panic, neither
\* in its derivation nor at its completion send, also when it finishes after
\* the dispatch loop has returned.
C26_NoWorkerPanic ==
    \A t \in Threads : wpc[t] \notin {"panicked", "send_panicked"}

\* How many unreceived completion signals carry the index t.
Signals(t) == Cardinality({i \in 1..Len(job_finished) : job_finished[i] = t})

\* What worker t accounts for: an identifier being handed to it by the
\* dispatcher, one in its inbox, one in progress, and its unreceived
\* completion signals.
Accounted(t) ==
    (IF dpc = "send" /\ target = t THEN 1 ELSE 0)
    + Len(inbox[t])
    + (IF image_id[t] # NoImage THEN 1 ELSE 0)
    + Signals(t)

\* C27. Busy-flag accounting: with no failure and while the dispatch loop
\* runs, a worker whose is_busy is false has never been handed an identifier
\* (it is idle with nothing queued and has signalled nothing), and a worker
\* whose is_busy is true accounts for exactly one thing: one identifier
\* (being handed to it, in its inbox or in progress) or one unreceived
\* completion signal; is_busy is never reset, the first thread_count
\* identifiers go to the free threads in index order and every later one
\* waits for a completion.
C27_BusyFlagAccounting ==
    /\ [](~DispatcherGone
            => \A t \in Threads :
                 /\ ~is_busy[t]
                      => /\ Accounted(t) = 0
                         /\ wpc[t] = "idle"
                         /\ taken <= t
                 /\ is_busy[t] => Accounted(t) = 1)
    /\ [][\A t \in ThreadIndices :
            (t \in Threads /\ is_busy[t]) => is_busy'[t]]_vars
    /\ [][(dpc = "loop" /\ taken' = taken + 1)
            => IF taken < thread_count
                 THEN dpc' = "send" /\ target' = taken /\ is_busy'[taken]
                 ELSE dpc' = "wait" /\ UNCHANGED is_busy]_vars

\* C27 witness: both workers are busy, one with an identifier in progress
\* and one with an unreceived completion signal, the dispatcher has taken
\* a third identifier and the loop still runs.
C27_Witness ==
    /\ thread_count = 2
    /\ ~DispatcherGone
    /\ taken > thread_count
    /\ \A t \in Threads : is_busy[t]
    /\ \E t, u \in Threads :
         /\ image_id[t] # NoImage
         /\ Signals(u) = 1

\* C28. Read path leaves the cache unchanged: an image request creates,
\* writes and alters no cache file, and a request answered 404, whatever its
\* identifier and size, leaves the whole cache tree, ./cache and the
\* identifier directories included, as it was.
C28_ReadPathFrame ==
    [][IsRequest
         => /\ UNCHANGED <<files, writer, writes>>
            /\ response'.status = 404 => UNCHANGED <<cache_root, image_dirs>>]_vars

\* ceil(n / IGDB_QUERY_LIMIT)
Batches(n) == (n + IGDB_QUERY_LIMIT - 1) \div IGDB_QUERY_LIMIT

\* The games of the responses answered 200, in request order.
RECURSIVE Answered(_)
Answered(k) ==
    IF k = 0 THEN << >>
    ELSE Answered(k - 1)
           \o (IF responses[k] = 200 THEN CatalogGames(queries[k]) ELSE << >>)

\* The requests sent so far name the slugs of the list in list order, each
\* slug in one request and at most IGDB_QUERY_LIMIT per request.
InListOrder ==
    /\ Len(queries) <= Batches(Len(slugs))
    /\ \A k \in 1..Len(queries) :
         /\ Len(queries[k]) \in 1..IGDB_QUERY_LIMIT
         /\ queries[k] = SubSeq(slugs, (k - 1) * IGDB_QUERY_LIMIT + 1,
                                Min(k * IGDB_QUERY_LIMIT, Len(slugs)))

\* C29. Slug batching: get_games sends at most ceil(n / 500) requests, each
\* naming at most 500 slugs, the slugs of the list in list order and each
\* in one request; a call that returns Ok has sent exactly ceil(n / 500)
\* requests (none for n = 0) and returns the per-request results
\* concatenated in request order; a failing request is the last request of
\* its call, and the call returns its error.
C29_SlugBatching ==
    /\ InListOrder
    /\ \A k \in 1..Len(responses) : responses[k] # 200 => k = Len(responses)
    /\ get_games_result.tag = "Ok"
         => /\ Len(queries) = Batches(Len(slugs))
            /\ \A k \in 1..Len(responses) : responses[k] = 200
            /\ get_games_result.games = Answered(Len(responses))
    /\ get_games_result.tag = "Err"
         => /\ responses # << >>
            /\ get_games_result.code = responses[Len(responses)]
    /\ (gpc = "returned" /\ \E k \in 1..Len(responses) : responses[k] \in {401, 403})
         => get_games_result.tag = "Err"

\* The same for the get_games of server/src/igdb.rs alone.
ServerSlugBatching == crate = "server" => C29_SlugBatching

\* A call of three requests has returned Ok with the games of all of them.
ServerSlugBatchingReached ==
    /\ crate = "server"
    /\ get_games_result.tag = "Ok"
    /\ Len(queries) = 3
    /\ Len(get_games_result.games) = Len(slugs) - 1

\* The games of a list that have the slug, in list order.
WithSlug(games, slug) == SelectSeq(games, LAMBDA game : game.slug = slug)

\* C30. Duplicate slugs are removed entirely: after drain_duplicates no two
\* games of the configuration share a slug; the games left are exactly the
\* games whose slug was unique in the input, in their input order; and for
\* every slug that occurred more than once there is exactly one returned
\* group, which holds all input games of that slug, and no group holds
\* anything else.
C30_DuplicatesRemoved ==
    drained =>
      /\ \A i, j \in 1..Len(config_games) :
           i # j => config_games[i].slug # config_games[j].slug
      /\ config_games =
           SelectSeq(input_games,
                     LAMBDA game : Len(WithSlug(input_games, game.slug)) = 1)
      /\ \A slug \in GameSlugs :
           LET copies == WithSlug(input_games, slug)
               groups == {k \in 1..Len(conflicting_games) :
                            \E i \in 1..Len(conflicting_games[k]) :
                               conflicting_games[k][i].slug = slug}
           IN  IF Len(copies) > 1
                 THEN /\ WithSlug(config_games, slug) = << >>
                      /\ Cardinality(groups) = 1
                      /\ \A k \in groups : conflicting_games[k] = copies
                 ELSE groups = {}
      /\ \A k \in 1..Len(conflicting_games) : Len(conflicting_games[k]) > 1

\* C30 witness: a list of four games, two of them with the same slug and
\* different paths; the two are returned as one group and the other two stay.
C30_Witness ==
    /\ drained
    /\ Len(input_games) = 4
    /\ Len(config_games) = 2
    /\ Len(conflicting_games) = 1
    /\ conflicting_games[1][1].path # conflicting_games[1][2].path
    /\ input_games[1].slug = input_games[3].slug

====
